---- MODULE Spec2Model ----
(***************************************************************************)
(* Model of the print-station backend: the OTP e-mail verification flow    *)
(* (otp.controller / otp.model), the print-job store (printer.controller,  *)
(* printer.route) and the token resolver (auth.controller, user/clerk      *)
(* models).  Every awaited store or mail call of a handler is one step, so *)
(* that requests interleave exactly where the event loop lets them.        *)
(***************************************************************************)
EXTENDS Integers, FiniteSets, Sequences, TLC

(***************************************************************************)
(* Bounds of the model                                                      *)
(***************************************************************************)
MaxOtpDocs == 2
MaxRequests == 3
MaxSeqRequests == 7
MaxTime == 40
TickStep == 20
MaxJobs == 2
MaxPrintRequests == 3
MaxTenantRequests == 5
MaxAuthRequests == 5
MaxAssetRequests == 4
MaxSubmitRequests == 3
MaxStatsRequests == 4
MaxDashRequests == 5
MaxRoleRequests == 5

(***************************************************************************)
(* Program constants                                                        *)
(***************************************************************************)
OtpExpiryMinutes == 30
MaxAttempts == 5

Emails == {"a@x.io", "b@x.io"}
Codes == {111111, 222222}
Slots == {1, 2}

VARIABLES
    otps,        \* the OTP collection: _id -> document
    nextOtpId,   \* next fresh _id of the OTP collection
    now,         \* wall clock, in minutes
    reqs,        \* OTP requests in flight, one per slot
    otpResp,     \* the response most recently sent by an OTP handler
    started,     \* number of requests admitted so far
    users,       \* the User collection (admins and self-registered users)
    clerks,      \* the Clerk collection
    clients,     \* the Client collection
    cloud,       \* the assets held by Cloudinary, by public_id
    disk,        \* the files of the local upload directory, by path
    tokens,      \* the JWTs issued so far
    jobs,        \* the PDFPrint collection
    nextJobId,   \* next fresh _id of the PDFPrint collection
    preqs,       \* print requests in flight between two store calls
    printResp    \* the response most recently sent by an auth or print handler

otpVars == <<otps, nextOtpId, now, reqs, otpResp, started>>
otpStore == <<otps, nextOtpId, reqs, otpResp>>
assets == <<cloud, disk>>
tenantVars == <<users, clerks, clients, cloud, disk, tokens, jobs, nextJobId, preqs, printResp>>
vars == <<otps, nextOtpId, now, reqs, otpResp, started,
          users, clerks, clients, cloud, disk, tokens, jobs, nextJobId, preqs,
          printResp>>

NoDoc == [id |-> 0, email |-> "none", otp |-> 0, expiresAt |-> 0,
          verified |-> FALSE, attempts |-> 0]

IdleReq == [kind |-> "none", pc |-> "idle", email |-> "none", otp |-> 0,
            doc |-> NoDoc, code |-> 0, created |-> FALSE]

NoResp == [status |-> 0, resp |-> "none", remaining |-> 0, matched |-> FALSE]

\* res.status(status).json({ message, remainingAttempts? })
Reply(status, resp, remaining) ==
    [status |-> status, resp |-> resp, remaining |-> remaining, matched |-> FALSE]

\* the reply of verifyOTP about a loaded document; matched records whether the
\* submitted code was the document's code
VerifyReply(s, status, resp, remaining) ==
    [status |-> status, resp |-> resp, remaining |-> remaining,
     matched |-> (reqs[s].doc.otp = reqs[s].otp)]

\* a stored document together with its _id, as a handler holds it
Loaded(id) == [id |-> id, email |-> otps[id].email, otp |-> otps[id].otp,
               expiresAt |-> otps[id].expiresAt, verified |-> otps[id].verified,
               attempts |-> otps[id].attempts]

Stored(d) == [email |-> d.email, otp |-> d.otp, expiresAt |-> d.expiresAt,
              verified |-> d.verified, attempts |-> d.attempts]

\* otpSchema.statics.findValidOTP: the documents the query matches
findValidOTP(email) ==
    {id \in DOMAIN otps : /\ otps[id].email = email
                          /\ otps[id].verified = FALSE
                          /\ otps[id].expiresAt > now}

\* otpSchema.methods.isExpired
isExpired(d) == now > d.expiresAt

\* otpSchema.methods.isValid
isValid(d) == ~d.verified /\ ~isExpired(d) /\ d.attempts < MaxAttempts

\* OTP.deleteMany({ email, verified: false })
deleteManyUnverified(email) ==
    [id \in {i \in DOMAIN otps : ~(otps[i].email = email /\ otps[i].verified = FALSE)}
        |-> otps[id]]

\* OTP.deleteOne({ _id })
deleteOne(id) == [i \in DOMAIN otps \ {id} |-> otps[i]]

\* new OTP({...}).save()
insertOtp(id, email, code, expiresAt) ==
    [i \in DOMAIN otps \cup {id} |->
        IF i = id THEN [email |-> email, otp |-> code, expiresAt |-> expiresAt,
                        verified |-> FALSE, attempts |-> 0]
                  ELSE otps[i]]

InitOtp ==
    /\ otps = << >>
    /\ nextOtpId = 1
    /\ now = 0
    /\ reqs = [s \in Slots |-> IdleReq]
    /\ otpResp = NoResp
    /\ started = 0

Free(s) == reqs[s].pc = "idle"

\* documents that requests in flight may still create
PendingCreates ==
    Cardinality({s \in Slots : reqs[s].pc \in {"s_find", "s_branch", "s_save",
                                               "r_deleteMany", "r_save"}})

(***************************************************************************)
(* OTPController.sendOTP                                                    *)
(***************************************************************************)
StartSendOTP(s, email) ==
    /\ Free(s)
    /\ nextOtpId - 1 + PendingCreates < MaxOtpDocs
    /\ reqs' = [reqs EXCEPT ![s] = [IdleReq EXCEPT !.kind = "send", !.pc = "s_find",
                                                   !.email = email]]
    /\ UNCHANGED <<otps, nextOtpId, now, otpResp>>

\* const existingOTP = await OTP.findValidOTP(email)
SendFind(s) ==
    /\ reqs[s].pc = "s_find"
    /\ \/ /\ findValidOTP(reqs[s].email) = {}
          /\ reqs' = [reqs EXCEPT ![s].pc = "s_branch", ![s].doc = NoDoc]
       \/ \E id \in findValidOTP(reqs[s].email) :
             reqs' = [reqs EXCEPT ![s].pc = "s_branch", ![s].doc = Loaded(id)]
    /\ UNCHANGED <<otps, nextOtpId, now, otpResp>>

\* existingOTP && existingOTP.isValid()
reuseExisting(d) == d # NoDoc /\ isValid(d)

\* await sendOTPEmail(email, otpCode): the provider accepts the mail (200) or
\* the call throws and the handler goes on to its catch block
MailDispatch(s, ok) ==
    IF ok THEN /\ reqs' = [reqs EXCEPT ![s] = IdleReq]
               /\ otpResp' = Reply(200, "Sent", 0)
          ELSE /\ reqs' = [reqs EXCEPT ![s].pc = "s_rollback"]
               /\ otpResp' = otpResp

\* if branch: otpCode = existingOTP.otp, otpDocument = existingOTP, then the mail
SendReuse(s) ==
    /\ reqs[s].pc = "s_branch"
    /\ reuseExisting(reqs[s].doc)
    /\ \E ok \in BOOLEAN : MailDispatch(s, ok)
    /\ UNCHANGED <<otps, nextOtpId, now>>

\* else branch: generateOTP(), expiresAt = now + 30 min, OTP.deleteMany(...)
SendRotate(s) ==
    /\ reqs[s].pc = "s_branch"
    /\ ~reuseExisting(reqs[s].doc)
    /\ \E c \in Codes :
          reqs' = [reqs EXCEPT ![s].pc = "s_save", ![s].code = c,
                      ![s].doc = [NoDoc EXCEPT !.expiresAt = now + OtpExpiryMinutes]]
    /\ otps' = deleteManyUnverified(reqs[s].email)
    /\ UNCHANGED <<nextOtpId, now, otpResp>>

\* await otpDocument.save()
SendSave(s) ==
    /\ reqs[s].pc = "s_save"
    /\ otps' = insertOtp(nextOtpId, reqs[s].email, reqs[s].code, reqs[s].doc.expiresAt)
    /\ nextOtpId' = nextOtpId + 1
    /\ reqs' = [reqs EXCEPT ![s].pc = "s_email", ![s].created = TRUE,
                   ![s].doc = [id |-> nextOtpId, email |-> reqs[s].email,
                               otp |-> reqs[s].code, expiresAt |-> reqs[s].doc.expiresAt,
                               verified |-> FALSE, attempts |-> 0]]
    /\ UNCHANGED <<now, otpResp>>

\* await sendOTPEmail(email, otpCode) for a document this call created
SendEmail(s) ==
    /\ reqs[s].pc = "s_email"
    /\ \E ok \in BOOLEAN : MailDispatch(s, ok)
    /\ UNCHANGED <<otps, nextOtpId, now>>

\* a failed dispatch that leaves the document stored
rollbackStore_Skipped(d) == otps

\* a failed dispatch that removes the document only when it has expired
rollbackStore_ExpiredOnly(d) == IF isExpired(d) THEN deleteOne(d.id) ELSE otps

\* the store after the catch block of the mail dispatch:
\* await OTP.deleteOne({ _id: otpDocument._id })
rollbackStore(d) == deleteOne(d.id)

\* catch (emailError): delete the document, reply 500
SendRollback(s) ==
    /\ reqs[s].pc = "s_rollback"
    /\ otps' = rollbackStore(reqs[s].doc)
    /\ reqs' = [reqs EXCEPT ![s] = IdleReq]
    /\ otpResp' = Reply(500, "DeliveryError", 0)
    /\ UNCHANGED <<nextOtpId, now>>

(***************************************************************************)
(* OTPController.resendOTP                                                  *)
(***************************************************************************)
StartResendOTP(s, email) ==
    /\ Free(s)
    /\ nextOtpId - 1 + PendingCreates < MaxOtpDocs
    /\ reqs' = [reqs EXCEPT ![s] = [IdleReq EXCEPT !.kind = "resend",
                                                   !.pc = "r_deleteMany",
                                                   !.email = email]]
    /\ UNCHANGED <<otps, nextOtpId, now, otpResp>>

\* await OTP.deleteMany({ email, verified: false })
ResendDeleteMany(s) ==
    /\ reqs[s].pc = "r_deleteMany"
    /\ otps' = deleteManyUnverified(reqs[s].email)
    /\ reqs' = [reqs EXCEPT ![s].pc = "r_save"]
    /\ UNCHANGED <<nextOtpId, now, otpResp>>

\* generateOTP(), expiresAt = now + 30 min, await otpDocument.save()
ResendSave(s) ==
    /\ reqs[s].pc = "r_save"
    /\ \E c \in Codes :
        /\ otps' = insertOtp(nextOtpId, reqs[s].email, c, now + OtpExpiryMinutes)
        /\ reqs' = [reqs EXCEPT ![s].pc = "s_email", ![s].created = TRUE,
                       ![s].code = c,
                       ![s].doc = [id |-> nextOtpId, email |-> reqs[s].email,
                                   otp |-> c, expiresAt |-> now + OtpExpiryMinutes,
                                   verified |-> FALSE, attempts |-> 0]]
    /\ nextOtpId' = nextOtpId + 1
    /\ UNCHANGED <<now, otpResp>>

(***************************************************************************)
(* OTPController.verifyOTP                                                  *)
(***************************************************************************)
StartVerifyOTP(s, email, code) ==
    /\ Free(s)
    /\ reqs' = [reqs EXCEPT ![s] = [IdleReq EXCEPT !.kind = "verify", !.pc = "v_find",
                                                   !.email = email, !.otp = code]]
    /\ UNCHANGED <<otps, nextOtpId, now, otpResp>>

\* const otpDocument = await OTP.findValidOTP(email)
VerifyFind(s) ==
    /\ reqs[s].pc = "v_find"
    /\ \/ /\ findValidOTP(reqs[s].email) = {}
          /\ reqs' = [reqs EXCEPT ![s].pc = "v_check", ![s].doc = NoDoc]
       \/ \E id \in findValidOTP(reqs[s].email) :
             reqs' = [reqs EXCEPT ![s].pc = "v_check", ![s].doc = Loaded(id)]
    /\ UNCHANGED <<otps, nextOtpId, now, otpResp>>

\* a wrong guess that is not counted
wrongGuess_NotCounted(d) == d

\* otpDocument.attempts += 1
wrongGuess(d) == [d EXCEPT !.attempts = @ + 1]

\* const remainingAttempts = 5 - otpDocument.attempts; the reply floors it at 0
remainingAttempts(d) ==
    IF MaxAttempts - d.attempts > 0 THEN MaxAttempts - d.attempts ELSE 0

\* otpDocument.save() of a loaded document: a $set of the modified path on the
\* stored document with that _id
saveAttempts(d) == [otps EXCEPT ![d.id].attempts = d.attempts]
saveVerified(d) == [otps EXCEPT ![d.id].verified = TRUE]

\* the store after a wrong guess against the loaded document d
wrongGuessStore(d) == saveAttempts(wrongGuess(d))

\* an exhausted document that is left in the store
exhaustedStore_Kept(d) == otps

\* the store after the "maximum attempts exceeded" branch
exhaustedStore(d) == deleteOne(d.id)

\* the branches of verifyOTP after the lookup, each ending in its store call;
\* save() of a document that is no longer stored throws, and the outer catch
\* replies 500
VerifyCheck(s) ==
    /\ reqs[s].pc = "v_check"
    /\ reqs' = [reqs EXCEPT ![s] = IdleReq]
    /\ LET d == reqs[s].doc IN
       IF d = NoDoc THEN
            /\ otps' = otps
            /\ otpResp' = Reply(400, "NoValidOtp", 0)
       ELSE IF d.attempts >= MaxAttempts THEN
            /\ otps' = exhaustedStore(d)
            /\ otpResp' = VerifyReply(s, 400, "AttemptsExhausted", 0)
       ELSE IF isExpired(d) THEN
            /\ otps' = deleteOne(d.id)
            /\ otpResp' = VerifyReply(s, 400, "Expired", 0)
       ELSE IF d.otp # reqs[s].otp THEN
            IF d.id \in DOMAIN otps
            THEN /\ otps' = wrongGuessStore(d)
                 /\ otpResp' = VerifyReply(s, 400, "InvalidOtp",
                                           remainingAttempts(wrongGuess(d)))
            ELSE /\ otps' = otps
                 /\ otpResp' = Reply(500, "InternalError", 0)
       ELSE
            IF d.id \in DOMAIN otps
            THEN /\ otps' = saveVerified(d)
                 /\ otpResp' = VerifyReply(s, 200, "Verified", 0)
            ELSE /\ otps' = otps
                 /\ otpResp' = Reply(500, "InternalError", 0)
    /\ UNCHANGED <<nextOtpId, now>>

(***************************************************************************)
(* The environment: time passes, and the store's TTL monitor removes        *)
(* documents whose expiresAt has passed (index expireAfterSeconds: 0)       *)
(***************************************************************************)
Tick ==
    /\ now + TickStep <= MaxTime
    /\ now' = now + TickStep
    /\ UNCHANGED <<otps, nextOtpId, reqs, otpResp>>

TTLExpire ==
    /\ \E id \in DOMAIN otps :
          /\ otps[id].expiresAt < now
          /\ otps' = deleteOne(id)
    /\ UNCHANGED <<nextOtpId, now, reqs, otpResp>>

OtpStep(s) ==
    \/ SendFind(s)
    \/ SendReuse(s)
    \/ SendRotate(s)
    \/ SendSave(s)
    \/ SendEmail(s)
    \/ SendRollback(s)
    \/ ResendDeleteMany(s)
    \/ ResendSave(s)
    \/ VerifyFind(s)
    \/ VerifyCheck(s)

OtpStart(s) ==
    \/ \E e \in Emails : StartSendOTP(s, e)
    \/ \E e \in Emails : StartResendOTP(s, e)
    \/ \E e \in Emails, c \in Codes : StartVerifyOTP(s, e, c)

(***************************************************************************)
(* Principals and tokens (user.model, clerk.model, auth.controller)        *)
(***************************************************************************)
Undefined == "none"
UserIds == <<"u1", "u2">>
ClerkIds == <<"c1", "c2">>
ClientIds == {"k1"}
ClientDocIds == <<"k1", "k2">>
Passwords == {"pw1", "pw2"}
PSlots == {1, 2}

\* enum UserRole
UserRole == {"admin", "clerk"}

\* ROLE_PERMISSIONS, as far as the routes of the model ask for them
ROLE_PERMISSIONS(role) ==
    IF role = "admin" THEN {"manage_users", "manage_jobs"} ELSE {"manage_jobs"}

\* userSchema.pre('save'): if (this.isModified('role'))
\* this.permissions = ROLE_PERMISSIONS[this.role]
preSavePermissions(roleModified, role, permissions) ==
    IF roleModified THEN ROLE_PERMISSIONS(role) ELSE permissions

\* userSchema.methods.generateAuthToken: jwt.sign of { userId, email, role,
\* permissions }
generateAuthToken(u) ==
    [sig |-> "valid", userId |-> u.id, clerkId |-> Undefined, email |-> u.email,
     role |-> u.role, permissions |-> u.permissions,
     adminId |-> Undefined, clientId |-> Undefined, type |-> Undefined]

\* clerkSchema.methods.generateAuthToken: jwt.sign of { clerkId, email,
\* role: CLERK, permissions, adminId }
clerkGenerateAuthToken(c) ==
    [sig |-> "valid", userId |-> Undefined, clerkId |-> c.id, email |-> c.email,
     role |-> "clerk", permissions |-> ROLE_PERMISSIONS("clerk"),
     adminId |-> c.adminId, clientId |-> Undefined, type |-> Undefined]

\* a payload field that is absent where the reader expects an array
UndefinedPermissions == {Undefined}

\* ClientController.generateToken: jwt.sign of { clientId, email,
\* type: "client" } with the secret of the other tokens
clientGenerateToken(c) ==
    [sig |-> "valid", userId |-> Undefined, clerkId |-> Undefined, email |-> c.email,
     role |-> Undefined, permissions |-> UndefinedPermissions,
     adminId |-> Undefined, clientId |-> c.id, type |-> "client"]

\* a request without an Authorization header
NoToken ==
    [sig |-> "absent", userId |-> Undefined, clerkId |-> Undefined,
     email |-> Undefined, role |-> Undefined, permissions |-> {},
     adminId |-> Undefined, clientId |-> Undefined, type |-> Undefined]

\* a token the server did not sign, claiming to be a clerk of u2
ForgedToken ==
    [sig |-> "invalid", userId |-> Undefined, clerkId |-> "c1",
     email |-> "a@x.io", role |-> "clerk",
     permissions |-> ROLE_PERMISSIONS("clerk"), adminId |-> "u2",
     clientId |-> Undefined, type |-> Undefined]

\* what a caller can put in the Authorization header
Bearer == tokens \cup {NoToken, ForgedToken}

\* req.user before any middleware has set it
NoUser ==
    [userId |-> Undefined, clerkId |-> Undefined, email |-> Undefined,
     role |-> Undefined, permissions |-> {}, adminId |-> Undefined]

\* AuthController.verifyToken: the status it answers with when it does not
\* call next(), 0 when it does
verifyTokenStatus(token) ==
    IF token.sig = "absent" THEN 401
    ELSE IF token.sig # "valid" THEN 403
    ELSE 0

\* a resolver that does not carry the clerk's adminId over to req.user
verifyToken_NoAdminId(token) ==
    [userId |-> token.userId, clerkId |-> token.clerkId, email |-> token.email,
     role |-> token.role, permissions |-> token.permissions,
     adminId |-> Undefined]

\* AuthController.verifyToken: req.user built from the decoded payload
verifyToken(token) ==
    IF token.clerkId # Undefined
    THEN [userId |-> Undefined, clerkId |-> token.clerkId, email |-> token.email,
          role |-> token.role, permissions |-> token.permissions,
          adminId |-> token.adminId]
    ELSE [userId |-> token.userId, clerkId |-> Undefined, email |-> token.email,
          role |-> token.role, permissions |-> token.permissions,
          adminId |-> Undefined]

\* a permission check that looks the account up and refuses a deactivated one
checkPermission_StoredAccount(user, permission) ==
    IF user = NoUser THEN 401
    ELSE IF user.permissions = UndefinedPermissions THEN 500
    ELSE IF permission \notin user.permissions THEN 403
    ELSE IF \E u \in users : u.id = user.userId /\ ~u.isActive THEN 403
    ELSE 0

\* AuthController.checkPermission(permission)
checkPermission(user, permission) ==
    IF user = NoUser THEN 401
    ELSE IF user.permissions = UndefinedPermissions
    THEN 500 \* undefined.includes throws, Express answers the error
    ELSE IF permission \notin user.permissions THEN 403
    ELSE 0

\* PrinterController.buildAdminIdFilter: the filter as a set of
\* <<path, value>> pairs, {} for the empty filter
buildAdminIdFilter(user) ==
    IF user # NoUser
    THEN IF user.adminId # Undefined
         THEN {<<"adminId", user.adminId>>}
         ELSE IF user.role = "admin" /\ user.userId # Undefined
              THEN {<<"adminId", user.userId>>}
              ELSE {}
    ELSE {}

(***************************************************************************)
(* The PDFPrint collection (printer.model)                                  *)
(***************************************************************************)
Statuses == {"pending", "processing", "completed", "failed"}

\* the paths of PDFPrintSchema that the handlers of the model read or write
PDFPrintSchemaPaths ==
    {"id", "status", "cloudinaryPublicId", "cloudinaryUrl", "filePath",
     "fileName", "artwork", "width", "height", "quantity", "location",
     "description", "copies", "duplex", "color", "createdAt", "updatedAt"}

\* the paths the schema of this controller revision adds: the job's owner,
\* its submitter and the error of a failed job
TenantSchemaPaths == {"adminId", "clientId", "errorMessage"}

\* strict mode: a document keeps the paths its schema declares
strict(doc) ==
    [p \in DOMAIN doc \cap (PDFPrintSchemaPaths \cup TenantSchemaPaths) |-> doc[p]]

\* a document matches a filter when it agrees on every path of the filter
matches(j, filter) == \A kv \in filter : j[kv[1]] = kv[2]

\* pdfPrintModel.find(filter)
findJobs(filter) == {j \in jobs : matches(j, filter)}

\* a lookup by _id alone
findOne_AnyTenant(id, filter) == {j \in jobs : j.id = id}

\* pdfPrintModel.findOne({ _id: id, ...filter })
findOne(id, filter) == {j \in jobs : j.id = id /\ matches(j, filter)}

\* the names Cloudinary and multer give the file of the n-th submission
PublicIds == <<"pid1", "pid2", "pid3", "pid4">>
Urls == <<"https://cdn/pid1", "https://cdn/pid2", "https://cdn/pid3",
          "https://cdn/pid4">>
LocalPaths == <<"uploads/f1", "uploads/f2", "uploads/f3", "uploads/f4">>

\* what cloudinary.uploader.upload does: it throws, returns a result without
\* public_id or secure_url, or returns both
UploadResults == {"threw", "invalid", "uploaded"}

\* the value parseInt and Number give for a string that is not a number
NaN == 0 - 1

\* parseInt(x, 10) on the strings a form sends
parseInt(x) ==
    CASE x = "0" -> 0
      [] x = "1" -> 1
      [] x = "2" -> 2
      [] x = "3" -> 3
      [] x = "2.7" -> 2
      [] OTHER -> NaN

\* the multipart body of a submission: every field is a string or absent
FormBody(adminId, quantity, copies, duplex, description) ==
    [adminId |-> adminId, artwork |-> "art", width |-> "10", height |-> "20",
     location |-> "shop", quantity |-> quantity, copies |-> copies,
     duplex |-> duplex, color |-> "false", description |-> description]

\* a submission that leaves every optional field to its default
PlainBody(adminId) == FormBody(adminId, "1", Undefined, Undefined, Undefined)

\* a job that keeps the remote reference although the upload gave none
cloudinaryData_Always(id, upload) ==
    [publicId |-> PublicIds[id], url |-> Urls[id]]

\* cloudinaryData: { publicId, url } of a usable upload result, null otherwise
cloudinaryData(id, upload) ==
    IF upload = "uploaded"
    THEN [publicId |-> PublicIds[id], url |-> Urls[id]]
    ELSE [publicId |-> Undefined, url |-> Undefined]

\* copies: parseInt(body.copies, 10) || 1
copiesOf(body) ==
    IF parseInt(body.copies) \in {NaN, 0} THEN 1 ELSE parseInt(body.copies)

\* printData as submitPDF builds it, made a document by
\* new pdfPrintModel(printData); save() sets the timestamps
newJob(id, clientId, body, upload) ==
    strict([id |-> id, clientId |-> clientId, adminId |-> body.adminId,
            status |-> "pending", errorMessage |-> Undefined,
            fileName |-> "file.pdf",
            filePath |-> IF cloudinaryData(id, upload).url # Undefined
                         THEN cloudinaryData(id, upload).url
                         ELSE LocalPaths[id],
            cloudinaryPublicId |-> cloudinaryData(id, upload).publicId,
            cloudinaryUrl |-> cloudinaryData(id, upload).url,
            copies |-> copiesOf(body),
            duplex |-> (body.duplex = "true"),
            color |-> (body.color = "true"),
            artwork |-> body.artwork, width |-> body.width,
            height |-> body.height,
            quantity |-> parseInt(body.quantity),
            location |-> body.location,
            description |-> IF body.description = Undefined THEN ""
                            ELSE body.description,
            createdAt |-> now, updatedAt |-> now,
            printerName |-> "default"])

\* an update that writes errorMessage whether or not the request has one
applyUpdate_AlwaysError(j, status, errorMessage) ==
    [j EXCEPT !.status = status, !.errorMessage = errorMessage, !.updatedAt = now]

\* const updateData = { status }; if (errorMessage) updateData.errorMessage = ...
\* applied by findOneAndUpdate, which also sets updatedAt (timestamps: true)
applyUpdate(j, status, errorMessage) ==
    [j EXCEPT !.status = status,
              !.errorMessage = IF errorMessage # Undefined THEN errorMessage ELSE @,
              !.updatedAt = now]

\* pdfPrintModel.findOneAndUpdate({ _id: id, ...filter }, updateData)
findOneAndUpdate(id, filter, status, errorMessage) ==
    (jobs \ findOne(id, filter))
        \cup {applyUpdate(j, status, errorMessage) : j \in findOne(id, filter)}

\* pdfPrintModel.findOneAndDelete({ _id: id, ...filter })
findOneAndDelete(id, filter) == jobs \ findOne(id, filter)

\* a request without a body the auth handlers read
NoBody ==
    [email |-> Undefined, password |-> Undefined, newPassword |-> Undefined,
     id |-> Undefined, role |-> Undefined]

\* a request without a multipart form
NoForm ==
    [adminId |-> Undefined, artwork |-> Undefined, width |-> Undefined,
     height |-> Undefined, location |-> Undefined, quantity |-> Undefined,
     copies |-> Undefined, duplex |-> Undefined, color |-> Undefined,
     description |-> Undefined]

IdlePrintReq ==
    [pc |-> "idle", token |-> NoToken, user |-> NoUser, id |-> 0,
     status |-> Undefined, errorMessage |-> Undefined, adminIdArg |-> Undefined,
     existing |-> {}, cloudinary |-> "none", unlink |-> "none",
     stats |-> {}, totalJobs |-> 0]

\* req.query.selectedDate / req.query.date when the query has none
NoDate == 0 - 1

\* successRate of a reply that has none; a rate is kept as the exact fraction
\* num / den
NoRate == [num |-> 0, den |-> 1]

NoPrintResp ==
    [op |-> "none", status |-> 0, token |-> NoToken, id |-> 0, filter |-> {},
     data |-> {}, adminIdArg |-> Undefined, message |-> Undefined,
     body |-> NoBody, cloudinary |-> "none", form |-> NoForm,
     unlink |-> "none", stats |-> {}, totalJobs |-> 0, completedJobs |-> 0,
     successRate |-> NoRate, date |-> NoDate]

\* res.status(status).json({ data }) of an auth or print handler, with the
\* request it answers
HttpReply(op, status, req, filter, data) ==
    [op |-> op, status |-> status, token |-> req.token, id |-> req.id,
     filter |-> filter, data |-> data, adminIdArg |-> req.adminIdArg,
     message |-> Undefined, body |-> NoBody, cloudinary |-> "none",
     form |-> NoForm, unlink |-> "none", stats |-> {}, totalJobs |-> 0,
     completedJobs |-> 0, successRate |-> NoRate, date |-> NoDate]

\* a request as a handler receives it
HttpReq(token, user, id, status, errorMessage, adminIdArg) ==
    [token |-> token, user |-> user, id |-> id, status |-> status,
     errorMessage |-> errorMessage, adminIdArg |-> adminIdArg]

InitTenant ==
    /\ users = {}
    /\ clerks = {}
    /\ clients = {}
    /\ cloud = {}
    /\ disk = {}
    /\ tokens = {}
    /\ jobs = {}
    /\ nextJobId = 1
    /\ preqs = [s \in PSlots |-> IdlePrintReq]
    /\ printResp = NoPrintResp

Init == InitOtp /\ InitTenant

PFree(s) == preqs[s].pc = "idle"

(***************************************************************************)
(* AuthController.register, AuthController.login, UserController.createUser *)
(***************************************************************************)
\* a request that carries neither a token nor a job id
PlainReq == HttpReq(NoToken, NoUser, 0, Undefined, Undefined, Undefined)

\* lastLogin of an account that never logged in
Never == 0 - 1

\* the body and route parameters of a request to an auth, user or client
\* endpoint
Body(email, password, newPassword, id) ==
    [email |-> email, password |-> password, newPassword |-> newPassword,
     id |-> id, role |-> Undefined]

\* res.status(status).json({ message }) of an auth, user or client handler
AuthReply(op, status, message, req, body) ==
    [HttpReply(op, status, req, {}, {}) EXCEPT !.message = message,
                                                !.body = body]

\* the length checks on a password: if (!password || password.length < 6)
tooShort(password) == password \in {Undefined, "short"}

\* AuthController.register: const { email, password, name,
\* role = UserRole.CLERK } = req.body
register(email, password, bodyRole) ==
    /\ Cardinality(users) < Len(UserIds)
    /\ LET role == IF bodyRole = Undefined THEN "clerk" ELSE bodyRole
           body == [Body(email, password, Undefined, Undefined)
                        EXCEPT !.role = bodyRole] IN
       IF \E u \in users : u.email = email
       THEN /\ printResp' = AuthReply("register", 409,
                   "User with this email already exists", PlainReq, body)
            /\ UNCHANGED <<users, tokens>>
       ELSE LET user == [id |-> UserIds[Cardinality(users) + 1],
                         email |-> email, role |-> role,
                         permissions |-> preSavePermissions(TRUE, role, {}),
                         password |-> password, isActive |-> TRUE,
                         lastLogin |-> Never] IN
            /\ users' = users \cup {user}
            /\ tokens' = tokens \cup {generateAuthToken(user)}
            /\ printResp' = AuthReply("register", 201,
                   "User registered successfully", PlainReq, body)
    /\ UNCHANGED <<assets, clients, clerks, jobs, nextJobId, preqs>>

\* AuthController.login: User.findOne({ email, isActive: true }) first,
\* Clerk.findOne({ email, isActive: true }) when there is none
login(email, password) ==
    LET user == {u \in users : u.email = email /\ u.isActive}
        clerk == {c \in clerks : c.email = email /\ c.isActive}
        body == Body(email, password, Undefined, Undefined)
        refused == /\ printResp' = AuthReply("login", 401,
                          "Invalid email or password", PlainReq, body)
                   /\ UNCHANGED <<users, clerks, tokens>> IN
    /\ IF user = {} /\ clerk # {}
       THEN IF \A c \in clerk : c.password # password
            THEN refused
            ELSE /\ clerks' = (clerks \ clerk)
                        \cup {[c EXCEPT !.lastLogin = now] : c \in clerk}
                 /\ tokens' = tokens \cup {clerkGenerateAuthToken(c) : c \in clerk}
                 /\ printResp' = AuthReply("login", 200, "Login successful",
                                           PlainReq, body)
                 /\ UNCHANGED users
       ELSE IF user = {} \/ \A u \in user : u.password # password
            THEN refused
            ELSE /\ users' = (users \ user)
                        \cup {[u EXCEPT !.lastLogin = now] : u \in user}
                 /\ tokens' = tokens \cup {generateAuthToken(u) : u \in user}
                 /\ printResp' = AuthReply("login", 200, "Login successful",
                                           PlainReq, body)
                 /\ UNCHANGED clerks
    /\ UNCHANGED <<assets, clients, jobs, nextJobId, preqs>>

\* a clerk created without the temporary-password flag
newClerk_NotTemporary(id, email, adminId, password) ==
    [id |-> id, email |-> email, adminId |-> adminId, password |-> password,
     isActive |-> TRUE, isTemporaryPassword |-> FALSE, lastLogin |-> Never]

\* new Clerk({ email, password, name, adminId, permissions,
\* isTemporaryPassword: true })
newClerk(id, email, adminId, password) ==
    [id |-> id, email |-> email, adminId |-> adminId, password |-> password,
     isActive |-> TRUE, isTemporaryPassword |-> TRUE, lastLogin |-> Never]

\* an owner taken from the adminId the request body carries
createUserAdminId_FromBody(req) == req.adminIdArg

\* const adminId = req.user?.userId
createUserAdminId(req) == req.user.userId

\* UserController.createUser: the clerk belongs to the caller, whatever
\* adminId the body carries
createUser(req, email, password) ==
    /\ Cardinality(clerks) < Len(ClerkIds)
    /\ LET adminId == createUserAdminId(req)
           body == Body(email, password, Undefined, Undefined) IN
       IF adminId = Undefined \/ req.user.role # "admin"
       THEN /\ printResp' = AuthReply("createUser", 403,
                   "Only admins can create clerk accounts", req, body)
            /\ UNCHANGED clerks
       ELSE IF \E c \in clerks : c.email = email /\ c.adminId = adminId
       THEN /\ printResp' = AuthReply("createUser", 409,
                   "User with this email already exists", req, body)
            /\ UNCHANGED clerks
       ELSE IF ~\E u \in users : u.id = adminId
       THEN /\ printResp' = AuthReply("createUser", 404, "Admin not found",
                                      req, body)
            /\ UNCHANGED clerks
       ELSE IF tooShort(password)
       THEN /\ printResp' = AuthReply("createUser", 400,
                   "Password must be at least 6 characters", req, body)
            /\ UNCHANGED clerks
       ELSE IF \E c \in clerks : c.email = email
       THEN \* clerk.save() violates the unique index on email
            /\ printResp' = AuthReply("createUser", 500,
                   "Internal server error", req, body)
            /\ UNCHANGED clerks
       ELSE /\ clerks' = clerks \cup {newClerk(ClerkIds[Cardinality(clerks) + 1],
                                               email, adminId, password)}
            /\ printResp' = AuthReply("createUser", 201,
                   "Clerk account created successfully. Welcome email sent.",
                   req, body)
    /\ UNCHANGED <<assets, clients, users, tokens, jobs, nextJobId, preqs>>

\* a request that verifyToken, checkPermission or checkRole answers itself
Rejected(op, status, req) ==
    /\ printResp' = HttpReply(op, status, req, {}, {})
    /\ UNCHANGED <<assets, clients, users, clerks, tokens, jobs, nextJobId, preqs>>

\* POST /api/users: router.use(verifyToken), checkPermission(MANAGE_USERS),
\* UserController.createUser
postUsers(token, email, password, bodyAdminId) ==
    LET anon == HttpReq(token, NoUser, 0, Undefined, Undefined, bodyAdminId)
        req == HttpReq(token, verifyToken(token), 0, Undefined, Undefined, bodyAdminId) IN
    IF verifyTokenStatus(token) # 0
    THEN Rejected("verifyToken", verifyTokenStatus(token), anon)
    ELSE IF checkPermission(req.user, "manage_users") # 0
    THEN Rejected("checkPermission", checkPermission(req.user, "manage_users"), req)
    ELSE createUser(req, email, password)

(***************************************************************************)
(* The remaining handlers of AuthController, UserController and             *)
(* ClientController                                                          *)
(***************************************************************************)
\* the roles GET /users/:id and GET /users/role/:role are mounted with
AdminManager == {"admin", "manager"}

\* a role check that lets every authenticated request through
checkRole_AnyRole(user, roles) ==
    IF user = NoUser THEN 401 ELSE 0

\* AuthController.checkRole(roles)
checkRole(user, roles) ==
    IF user = NoUser THEN 401
    ELSE IF user.role \notin roles THEN 403
    ELSE 0

\* a handler that answers without writing to any collection
Answer(op, status, message, req, body) ==
    /\ printResp' = AuthReply(op, status, message, req, body)
    /\ UNCHANGED <<assets, clients, users, clerks, tokens, jobs, nextJobId, preqs>>

\* the request a route hands on once AuthController.verifyToken called next()
Verified(token) ==
    HttpReq(token, verifyToken(token), 0, Undefined, Undefined, Undefined)

\* UserController.getUserById
getUserById(req, id) ==
    IF ~\E u \in users : u.id = id
    THEN Answer("getUserById", 404, "User not found", req,
                Body(Undefined, Undefined, Undefined, id))
    ELSE Answer("getUserById", 200, Undefined, req,
                Body(Undefined, Undefined, Undefined, id))

\* UserController.getUsersByRole
getUsersByRole(req, role) ==
    IF role \notin UserRole
    THEN Answer("getUsersByRole", 400, "Invalid role", req,
                [Body(Undefined, Undefined, Undefined, Undefined)
                    EXCEPT !.role = role])
    ELSE Answer("getUsersByRole", 200, Undefined, req,
                [Body(Undefined, Undefined, Undefined, Undefined)
                    EXCEPT !.role = role])

\* UserController.deleteUser: a soft delete
deleteUser(req, id) ==
    LET body == Body(Undefined, Undefined, Undefined, id)
        user == {u \in users : u.id = id} IN
    IF req.user.userId = id
    THEN Answer("deleteUser", 400, "Cannot delete your own account", req, body)
    ELSE IF user = {}
    THEN Answer("deleteUser", 404, "User not found", req, body)
    ELSE /\ users' = (users \ user) \cup {[u EXCEPT !.isActive = FALSE] : u \in user}
         /\ printResp' = AuthReply("deleteUser", 200,
                "User deactivated successfully", req, body)
         /\ UNCHANGED <<assets, clients, clerks, tokens, jobs, nextJobId, preqs>>

\* AuthController.changePassword: User.findById(req.user?.userId)
changePassword(req, currentPassword, newPassword) ==
    LET body == Body(Undefined, currentPassword, newPassword, Undefined)
        user == {u \in users : u.id = req.user.userId} IN
    IF user = {}
    THEN Answer("changePassword", 404, "User not found", req, body)
    ELSE IF \A u \in user : u.password # currentPassword
    THEN Answer("changePassword", 400, "Current password is incorrect", req, body)
    ELSE /\ users' = (users \ user) \cup {[u EXCEPT !.password = newPassword] : u \in user}
         /\ printResp' = AuthReply("changePassword", 200,
                "Password changed successfully", req, body)
         /\ UNCHANGED <<assets, clients, clerks, tokens, jobs, nextJobId, preqs>>

\* UserController.changeClerkPassword: reads req.params.clerkId and
\* req.body.newPassword, nothing else of the request
changeClerkPassword(clerkId, newPassword) ==
    LET body == Body(Undefined, Undefined, newPassword, clerkId)
        clerk == {c \in clerks : c.id = clerkId} IN
    IF tooShort(newPassword)
    THEN Answer("changeClerkPassword", 400,
                "Password must be at least 6 characters", PlainReq, body)
    ELSE IF clerk = {}
    THEN Answer("changeClerkPassword", 404, "Clerk not found", PlainReq, body)
    ELSE IF \A c \in clerk : ~\E u \in users : u.id = c.adminId
    THEN Answer("changeClerkPassword", 404, "Admin not found", PlainReq, body)
    ELSE /\ clerks' = (clerks \ clerk)
                \cup {[c EXCEPT !.password = newPassword,
                                !.isTemporaryPassword = FALSE] : c \in clerk}
         /\ printResp' = AuthReply("changeClerkPassword", 200,
                "Clerk password changed successfully", PlainReq, body)
         /\ UNCHANGED <<assets, clients, users, tokens, jobs, nextJobId, preqs>>

\* the account AuthController.getProfile and refreshToken load:
\* userId = req.user?.userId || req.user?.clerkId, looked up in the Clerk
\* collection when req.user.role is CLERK, in the User collection otherwise
principalOf(user) ==
    LET userId == IF user.userId # Undefined THEN user.userId ELSE user.clerkId IN
    IF user.role = "clerk"
    THEN {c \in clerks : c.id = userId}
    ELSE {u \in users : u.id = userId}

\* AuthController.getProfile
getProfile(req) ==
    IF principalOf(req.user) = {}
    THEN Answer("getProfile", 404,
                IF req.user.role = "clerk" THEN "Clerk not found"
                ELSE "User not found", req, NoBody)
    ELSE Answer("getProfile", 200, Undefined, req, NoBody)

\* AuthController.logout
logout(req) == Answer("logout", 200, "Logout successful", req, NoBody)

\* AuthController.refreshToken
refreshToken(req) ==
    IF principalOf(req.user) = {}
    THEN Answer("refreshToken", 404,
                IF req.user.role = "clerk" THEN "Clerk not found"
                ELSE "User not found", req, NoBody)
    ELSE /\ tokens' = tokens \cup
                {IF req.user.role = "clerk" THEN clerkGenerateAuthToken(p)
                 ELSE generateAuthToken(p) : p \in principalOf(req.user)}
         /\ printResp' = AuthReply("refreshToken", 200, Undefined, req, NoBody)
         /\ UNCHANGED <<assets, clients, users, clerks, jobs, nextJobId, preqs>>

\* new Client({ email, password, fullName, phoneNumber, isActive: true })
\* with the fields of IClient
newClient(id, email, password) ==
    [id |-> id, email |-> email, password |-> password, isActive |-> TRUE,
     lastLogin |-> Never]

\* ClientController.register
clientRegister(email, password) ==
    LET body == Body(email, password, Undefined, Undefined) IN
    IF \E c \in clients : c.email = email
    THEN Answer("clientRegister", 409, "Client with this email already exists",
                PlainReq, body)
    ELSE LET client == newClient(ClientDocIds[Cardinality(clients) + 1],
                                 email, password) IN
         /\ Cardinality(clients) < Len(ClientDocIds)
         /\ clients' = clients \cup {client}
         /\ tokens' = tokens \cup {clientGenerateToken(client)}
         /\ printResp' = AuthReply("clientRegister", 201,
                "Client registered successfully", PlainReq, body)
         /\ UNCHANGED <<assets, users, clerks, jobs, nextJobId, preqs>>

\* ClientController.login: Client.findOne({ email })
clientLogin(email, password) ==
    LET body == Body(email, password, Undefined, Undefined)
        client == {c \in clients : c.email = email} IN
    IF client = {}
    THEN Answer("clientLogin", 401, "Something went wrong", PlainReq, body)
    ELSE IF \A c \in client : c.password # password
    THEN Answer("clientLogin", 401, "Invalid email or password", PlainReq, body)
    ELSE /\ clients' = (clients \ client)
                \cup {[c EXCEPT !.lastLogin = now] : c \in client}
         /\ tokens' = tokens \cup {clientGenerateToken(c) : c \in client}
         /\ printResp' = AuthReply("clientLogin", 200, "Login successful",
                                   PlainReq, body)
         /\ UNCHANGED <<assets, users, clerks, jobs, nextJobId, preqs>>

\* ClientController.verifyToken: the status it answers with when it does
\* not call next(), 0 when it does
clientVerifyTokenStatus(token) ==
    IF token.sig = "absent" THEN 401
    ELSE IF token.sig # "valid" THEN 403
    ELSE IF token.type # "client" THEN 403
    ELSE 0

\* ClientController.getProfile: req.client is the decoded payload
clientGetProfile(req) ==
    IF req.token.clientId = Undefined
    THEN Answer("clientGetProfile", 401, "Authentication required", req, NoBody)
    ELSE IF ~\E c \in clients : c.id = req.token.clientId /\ c.isActive
    THEN Answer("clientGetProfile", 404, "Client not found", req, NoBody)
    ELSE Answer("clientGetProfile", 200, Undefined, req, NoBody)

\* ClientController.changePassword
clientChangePassword(req, currentPassword, newPassword) ==
    LET body == Body(Undefined, currentPassword, newPassword, Undefined)
        client == {c \in clients : c.id = req.token.clientId /\ c.isActive} IN
    IF client = {}
    THEN Answer("clientChangePassword", 404, "Client not found", req, body)
    ELSE IF \A c \in client : c.password # currentPassword
    THEN Answer("clientChangePassword", 400, "Current password is incorrect",
                req, body)
    ELSE /\ clients' = (clients \ client)
                \cup {[c EXCEPT !.password = newPassword] : c \in client}
         /\ printResp' = AuthReply("clientChangePassword", 200,
                "Password changed successfully", req, body)
         /\ UNCHANGED <<assets, users, clerks, tokens, jobs, nextJobId, preqs>>

(***************************************************************************)
(* PrinterController                                                        *)
(***************************************************************************)
\* mongoose.Types.ObjectId.isValid
isValidObjectId(x) == x \in {"u1", "u2"}

\* the reply of submitPDF, with the form it answers and what the handler
\* logs about the upload
SubmitReply(status, req, body, upload, data) ==
    [HttpReply("submitPDF", status, req, {}, data)
        EXCEPT !.form = body, !.cloudinary = upload]

submitPDF(clientId, body, upload, unlinkOk) ==
    /\ nextJobId <= MaxJobs
    /\ LET req == HttpReq(NoToken, NoUser, 0, Undefined, Undefined, body.adminId)
           job == newJob(nextJobId, clientId, body, upload)
           uploaded == cloudinaryData(nextJobId, upload).publicId # Undefined
           kept == IF uploaded /\ unlinkOk THEN {} ELSE {LocalPaths[nextJobId]}
           sent == IF upload = "uploaded" THEN {PublicIds[nextJobId]} ELSE {} IN
       IF \E f \in {"artwork", "width", "height", "quantity", "location",
                    "adminId"} : body[f] = Undefined
       THEN \* "Missing required fields", the uploaded file is unlinked
            /\ printResp' = SubmitReply(400, req, body, "none", {})
            /\ UNCHANGED <<jobs, nextJobId, cloud, disk>>
       ELSE IF ~isValidObjectId(body.adminId)
       THEN \* "Invalid adminId format", the uploaded file is unlinked
            /\ printResp' = SubmitReply(400, req, body, "none", {})
            /\ UNCHANGED <<jobs, nextJobId, cloud, disk>>
       ELSE /\ cloud' = cloud \cup sent
            /\ disk' = disk \cup kept
            /\ IF job.quantity = NaN
               THEN \* save() rejects: Cast to Number failed for quantity
                    /\ printResp' = SubmitReply(500, req, body, upload, {})
                    /\ UNCHANGED <<jobs, nextJobId>>
               ELSE /\ jobs' = jobs \cup {job}
                    /\ nextJobId' = nextJobId + 1
                    /\ printResp' = SubmitReply(201, req, body, upload, {job})
    /\ UNCHANGED <<clients, users, clerks, tokens, preqs>>

getPrintJobs(req) ==
    /\ LET filter == buildAdminIdFilter(req.user) IN
       printResp' = HttpReply("getPrintJobs", 200, req, filter,
                        {j \in findJobs(filter) :
                            req.status = Undefined \/ j.status = req.status})
    /\ UNCHANGED <<assets, clients, users, clerks, tokens, jobs, nextJobId, preqs>>

getPrintJob(req) ==
    /\ LET filter == buildAdminIdFilter(req.user) IN
       IF findOne(req.id, filter) = {}
       THEN printResp' = HttpReply("getPrintJob", 404, req, filter, {})
       ELSE printResp' = HttpReply("getPrintJob", 200, req, filter,
                                   findOne(req.id, filter))
    /\ UNCHANGED <<assets, clients, users, clerks, tokens, jobs, nextJobId, preqs>>

\* up to the first findOne; the request goes on to findOneAndUpdate when the
\* job was found
updatePrintJobStatus(s, req) ==
    /\ PFree(s)
    /\ LET filter == buildAdminIdFilter(req.user) IN
       IF req.status \notin Statuses
       THEN /\ printResp' = HttpReply("updatePrintJobStatus", 400, req, filter, {})
            /\ UNCHANGED preqs
       ELSE IF findOne(req.id, filter) = {}
       THEN /\ printResp' = HttpReply("updatePrintJobStatus", 404, req, filter, {})
            /\ UNCHANGED preqs
       ELSE /\ preqs' = [preqs EXCEPT ![s] =
                           [pc |-> "u_update", token |-> req.token,
                            user |-> req.user, id |-> req.id,
                            status |-> req.status,
                            errorMessage |-> req.errorMessage,
                            adminIdArg |-> req.adminIdArg,
                            existing |-> findOne(req.id, filter),
                            cloudinary |-> "none", unlink |-> "none",
                            stats |-> {}, totalJobs |-> 0]]
            /\ UNCHANGED printResp
    /\ UNCHANGED <<assets, clients, users, clerks, tokens, jobs, nextJobId>>

\* a reply that fails when the remote delete throws
destroyStatus_Propagated(threw) == IF threw THEN 500 ELSE 200

\* try { await cloudinary.uploader.destroy(...) } catch (deleteError)
\* { console.error(...) }: the reply does not depend on the outcome
destroyStatus(threw) == 200

\* cloudinary.uploader.destroy(publicId) for the jobs loaded: the asset is
\* gone unless the call threw
destroy(existing, threw) ==
    IF threw THEN cloud
    ELSE cloud \ {j.cloudinaryPublicId : j \in existing}

\* fs.unlinkSync(filePath) for the jobs loaded: the file is gone unless the
\* call threw
unlinkSync(existing, threw) ==
    IF threw THEN disk
    ELSE disk \ {j.filePath : j \in existing}

\* if (status === "completed" && existingPrintJob.cloudinaryPublicId)
destroyAttempted(r) ==
    /\ r.status = "completed"
    /\ \E j \in r.existing : j.cloudinaryPublicId # Undefined

\* findOneAndUpdate, the best-effort cloudinary.uploader.destroy, whose
\* outcome the handler logs, and the reply
UpdateApply(s) ==
    /\ preqs[s].pc = "u_update"
    /\ LET r == preqs[s]
           filter == buildAdminIdFilter(r.user) IN
       /\ jobs' = findOneAndUpdate(r.id, filter, r.status, r.errorMessage)
       /\ IF findOne(r.id, filter) = {}
          THEN /\ printResp' = HttpReply("updatePrintJobStatus", 404, r, filter, {})
               /\ UNCHANGED cloud
          ELSE \E threw \in IF destroyAttempted(r) THEN BOOLEAN ELSE {FALSE} :
                  /\ cloud' = IF destroyAttempted(r)
                              THEN destroy(r.existing, threw) ELSE cloud
                  /\ printResp' =
                        [HttpReply("updatePrintJobStatus", destroyStatus(threw), r,
                                   filter,
                                   {applyUpdate(j, r.status, r.errorMessage) :
                                       j \in findOne(r.id, filter)})
                            EXCEPT !.cloudinary =
                               IF ~destroyAttempted(r) THEN "none"
                               ELSE IF threw THEN "threw" ELSE "destroyed"]
    /\ preqs' = [preqs EXCEPT ![s] = IdlePrintReq]
    /\ UNCHANGED <<disk, clients, users, clerks, tokens, nextJobId>>

\* up to the first findOne
deletePrintJob(s, req) ==
    /\ PFree(s)
    /\ LET filter == buildAdminIdFilter(req.user) IN
       IF findOne(req.id, filter) = {}
       THEN /\ printResp' = HttpReply("deletePrintJob", 404, req, filter, {})
            /\ UNCHANGED preqs
       ELSE /\ preqs' = [preqs EXCEPT ![s] =
                           [pc |-> "d_delete", token |-> req.token,
                            user |-> req.user, id |-> req.id,
                            status |-> Undefined, errorMessage |-> Undefined,
                            adminIdArg |-> req.adminIdArg,
                            existing |-> findOne(req.id, filter),
                            cloudinary |-> "none", unlink |-> "none",
                            stats |-> {}, totalJobs |-> 0]]
            /\ UNCHANGED printResp
    /\ UNCHANGED <<assets, clients, users, clerks, tokens, jobs, nextJobId>>

\* a delete that gives up when an asset cannot be removed
deleteRecord_UnlessAssetFailed(id, filter, failed) ==
    IF failed THEN jobs ELSE findOneAndDelete(id, filter)

\* both asset deletions sit in their own try/catch: the record is removed
\* whatever they did
deleteRecord(id, filter, failed) == findOneAndDelete(id, filter)

\* if (printJob.cloudinaryPublicId)
remoteDeleteAttempted(r) == \E j \in r.existing : j.cloudinaryPublicId # Undefined

\* if (printJob.filePath && fs.existsSync(printJob.filePath))
localDeleteAttempted(r) == \E j \in r.existing : j.filePath \in disk

\* the asset clean-up: cloudinary.uploader.destroy is awaited and
\* fs.unlinkSync runs before findOneAndDelete is issued
DeleteAssets(s) ==
    /\ preqs[s].pc = "d_delete"
    /\ LET r == preqs[s] IN
       \E remoteThrew \in IF remoteDeleteAttempted(r) THEN BOOLEAN ELSE {FALSE},
          localThrew \in IF localDeleteAttempted(r) THEN BOOLEAN ELSE {FALSE} :
          /\ cloud' = IF remoteDeleteAttempted(r)
                      THEN destroy(r.existing, remoteThrew) ELSE cloud
          /\ disk' = IF localDeleteAttempted(r)
                     THEN unlinkSync(r.existing, localThrew) ELSE disk
          /\ preqs' = [preqs EXCEPT ![s].pc = "d_record",
                                    ![s].cloudinary =
                                       IF ~remoteDeleteAttempted(r) THEN "none"
                                       ELSE IF remoteThrew THEN "threw"
                                       ELSE "destroyed",
                                    ![s].unlink =
                                       IF ~localDeleteAttempted(r) THEN "none"
                                       ELSE IF localThrew THEN "threw"
                                       ELSE "unlinked"]
    /\ UNCHANGED <<clients, users, clerks, tokens, jobs, nextJobId, printResp>>

\* findOneAndDelete and the reply
DeleteApply(s) ==
    /\ preqs[s].pc = "d_record"
    /\ LET r == preqs[s]
           filter == buildAdminIdFilter(r.user) IN
       /\ jobs' = deleteRecord(r.id, filter,
                               r.cloudinary = "threw" \/ r.unlink = "threw")
       /\ printResp' =
             [HttpReply("deletePrintJob", 200, r, filter, r.existing)
                 EXCEPT !.cloudinary = r.cloudinary, !.unlink = r.unlink]
    /\ preqs' = [preqs EXCEPT ![s] = IdlePrintReq]
    /\ UNCHANGED <<assets, clients, users, clerks, tokens, nextJobId>>

\* pdfPrintModel.aggregate([{ $match: filter }, { $group: { _id: "$status",
\* count: { $sum: 1 } } }]): one group for each status that occurs
aggregate(filter) ==
    {[id |-> st,
      count |-> Cardinality({j \in findJobs(filter) : j.status = st})] :
        st \in {j.status : j \in findJobs(filter)}}

\* pdfPrintModel.countDocuments(filter)
countDocuments(filter) == Cardinality(findJobs(filter))

\* { ...adminIdFilter, status: "completed" }
completedFilter(filter) == filter \cup {<<"status", "completed">>}

\* a rate computed without looking at totalJobs: 0 / 0 for an empty tenant
successRate_Unguarded(completedJobs, totalJobs) ==
    [num |-> completedJobs * 100, den |-> totalJobs]

\* totalJobs > 0 ? (completedJobs / totalJobs) * 100 : 0
successRate(completedJobs, totalJobs) ==
    IF totalJobs > 0
    THEN [num |-> completedJobs * 100, den |-> totalJobs]
    ELSE NoRate

\* res.json({ data: { stats, totalJobs, completedJobs, successRate } })
StatsReply(req, filter, data, stats, totalJobs, completedJobs) ==
    [HttpReply("getPrintStats", 200, req, filter, data)
        EXCEPT !.stats = stats, !.totalJobs = totalJobs,
               !.completedJobs = completedJobs,
               !.successRate = successRate(completedJobs, totalJobs)]

\* the handler with no other request between its three queries
getPrintStats(req) ==
    /\ LET filter == buildAdminIdFilter(req.user) IN
       printResp' = StatsReply(req, filter, findJobs(filter), aggregate(filter),
                               countDocuments(filter),
                               countDocuments(completedFilter(filter)))
    /\ UNCHANGED <<assets, clients, users, clerks, tokens, jobs, nextJobId, preqs>>

\* getPrintStats query by query: up to the answer of aggregate
getPrintStatsAggregate(s, req) ==
    /\ PFree(s)
    /\ preqs' = [preqs EXCEPT ![s] =
                    [IdlePrintReq EXCEPT !.pc = "s_total", !.token = req.token,
                                         !.user = req.user,
                                         !.stats = aggregate(buildAdminIdFilter(req.user))]]
    /\ UNCHANGED <<assets, clients, users, clerks, tokens, jobs, nextJobId, printResp>>

\* const totalJobs = await pdfPrintModel.countDocuments(adminIdFilter)
getPrintStatsTotal(s) ==
    /\ preqs[s].pc = "s_total"
    /\ preqs' = [preqs EXCEPT ![s].pc = "s_completed",
                              ![s].totalJobs =
                                 countDocuments(buildAdminIdFilter(preqs[s].user))]
    /\ UNCHANGED <<assets, clients, users, clerks, tokens, jobs, nextJobId, printResp>>

\* const completedJobs = await pdfPrintModel.countDocuments({ ...adminIdFilter,
\* status: "completed" }) and the reply
getPrintStatsCompleted(s) ==
    /\ preqs[s].pc = "s_completed"
    /\ LET r == preqs[s]
           filter == buildAdminIdFilter(r.user) IN
       printResp' = StatsReply(r, filter, {}, r.stats, r.totalJobs,
                               countDocuments(completedFilter(filter)))
    /\ preqs' = [preqs EXCEPT ![s] = IdlePrintReq]
    /\ UNCHANGED <<assets, clients, users, clerks, tokens, jobs, nextJobId>>

\* a dashboard filter that scopes admins only
dashboardBuildAdminIdFilter_AdminsOnly(user) ==
    IF user # NoUser /\ user.role = "admin" /\ user.userId # Undefined
    THEN {<<"adminId", user.userId>>}
    ELSE {}

\* DashboardController.buildAdminIdFilter
dashboardBuildAdminIdFilter(user) ==
    IF user # NoUser
    THEN IF user.adminId # Undefined
         THEN {<<"adminId", user.adminId>>}
         ELSE IF user.role = "admin" /\ user.userId # Undefined
              THEN {<<"adminId", user.userId>>}
              ELSE {}
    ELSE {}

\* the day a time falls on (setHours(0, 0, 0, 0)); the clock of the model
\* advances a day with each tick
dayOf(t) == t \div TickStep

\* the dates a query can name
Dates == 0..dayOf(MaxTime)

\* createdAt: { $gte: start of first, $lte: end of last }
createdWithin(j, first, last) ==
    dayOf(j.createdAt) >= first /\ dayOf(j.createdAt) <= last

\* DashboardController.getDashboardStats: the counters are taken over the
\* jobs of the filter, narrowed to selectedDate when the query has one
getDashboardStats(req, selectedDate) ==
    /\ LET filter == dashboardBuildAdminIdFilter(req.user)
           filteredJobs == {j \in findJobs(filter) :
                              selectedDate # NoDate
                                 => createdWithin(j, selectedDate, selectedDate)} IN
       printResp' = [HttpReply("getDashboardStats", 200, req, filter, filteredJobs)
                        EXCEPT !.date = selectedDate,
                               !.totalJobs = Cardinality(filteredJobs),
                               !.completedJobs =
                                  Cardinality({j \in filteredJobs :
                                                 j.status = "completed"})]
    /\ UNCHANGED <<assets, clients, users, clerks, tokens, jobs, nextJobId, preqs>>

\* const days = 7
days == 7

\* DashboardController.getWeeklyActivity: the jobs of the filter created on
\* today and the six days before, counted day by day
getWeeklyActivity(req) ==
    /\ LET filter == dashboardBuildAdminIdFilter(req.user)
           today == dayOf(now)
           counted == {j \in findJobs(filter) :
                         \E i \in 0..(days - 1) :
                            createdWithin(j, today - i, today - i)} IN
       printResp' = [HttpReply("getWeeklyActivity", 200, req, filter, counted)
                        EXCEPT !.totalJobs = Cardinality(counted)]
    /\ UNCHANGED <<assets, clients, users, clerks, tokens, jobs, nextJobId, preqs>>

\* DashboardController.getJobsByDate
getJobsByDate(req, date) ==
    /\ LET filter == dashboardBuildAdminIdFilter(req.user) IN
       IF date = NoDate
       THEN printResp' = HttpReply("getJobsByDate", 400, req, {}, {})
       ELSE printResp' = [HttpReply("getJobsByDate", 200, req, filter,
                                    {j \in findJobs(filter) :
                                        createdWithin(j, date, date)})
                             EXCEPT !.date = date]
    /\ UNCHANGED <<assets, clients, users, clerks, tokens, jobs, nextJobId, preqs>>

\* requests of the OTP endpoints interleave at their awaits
NextOtp ==
    \/ \E s \in Slots : /\ OtpStart(s)
                         /\ started < MaxRequests
                         /\ started' = started + 1
                         /\ UNCHANGED tenantVars
    \/ \E s \in Slots : OtpStep(s) /\ UNCHANGED <<started, tenantVars>>
    \/ Tick /\ UNCHANGED <<started, tenantVars>>
    \/ TTLExpire /\ UNCHANGED <<started, tenantVars>>

SpecOTP == Init /\ [][NextOtp]_vars

\* one OTP request at a time: a request is admitted when none is in flight
NextOtpSeq ==
    \/ \E s \in Slots : /\ OtpStart(s)
                         /\ \A t \in Slots : Free(t)
                         /\ started < MaxSeqRequests
                         /\ started' = started + 1
                         /\ UNCHANGED tenantVars
    \/ \E s \in Slots : OtpStep(s) /\ UNCHANGED <<started, tenantVars>>
    \/ Tick /\ UNCHANGED <<started, tenantVars>>
    \/ TTLExpire /\ UNCHANGED <<started, tenantVars>>

SpecOTPSeq == Init /\ [][NextOtpSeq]_vars

(***************************************************************************)
(* Requests of the print, dashboard and user endpoints                      *)
(***************************************************************************)
AdminIdArgs == {Undefined, "u1", "u2"}

\* printer.route and dashboard.route mount the handlers without any
\* middleware (app.use("/api/print", printerRoutes)): nothing sets req.user
printerRouteUser(token) == NoUser

\* the reading handlers of PrinterController and DashboardController on a
\* request whose req.user is user; args are the adminId values the caller
\* puts in the query string
ReadCall(token, user, args) ==
    \/ \E st \in {Undefined, "completed"}, a \in args :
          getPrintJobs(HttpReq(token, user, 0, st, Undefined, a))
    \/ \E id \in 1..MaxJobs, a \in args :
          getPrintJob(HttpReq(token, user, id, Undefined, Undefined, a))
    \/ getPrintStats(HttpReq(token, user, 0, Undefined, Undefined, Undefined))
    \/ getDashboardStats(HttpReq(token, user, 0, Undefined, Undefined, Undefined),
                         NoDate)

\* the writing handlers, up to their first store call
WriteCall(s, token, user) ==
    \/ \E id \in 1..MaxJobs, st \in Statuses \cup {"bogus"},
          em \in {Undefined, "jam"} :
          updatePrintJobStatus(s, HttpReq(token, user, id, st, em, Undefined))
    \/ \E id \in 1..MaxJobs :
          deletePrintJob(s, HttpReq(token, user, id, Undefined, Undefined, Undefined))

PrintStep(s) ==
    \/ UpdateApply(s)
    \/ DeleteAssets(s)
    \/ DeleteApply(s)

SubmitCall ==
    \E c \in ClientIds, a \in {Undefined, "bad", "u1", "u2"},
       up \in {"threw", "uploaded"} :
        submitPDF(c, PlainBody(a), up, TRUE)

\* the print endpoints as the application mounts them; no handler reads an
\* adminId from the query or the body, and the requests here carry none
NextPrint ==
    \/ /\ started < MaxPrintRequests
       /\ started' = started + 1
       /\ UNCHANGED <<now, otpStore>>
       /\ \/ \E e \in Emails, r \in UserRole : register(e, "pw1", r)
          \/ SubmitCall
          \/ \E t \in tokens \cup {NoToken} :
                ReadCall(t, printerRouteUser(t), {Undefined})
          \/ \E s \in PSlots, t \in tokens \cup {NoToken} :
                WriteCall(s, t, printerRouteUser(t))
    \/ \E s \in PSlots : PrintStep(s) /\ UNCHANGED <<started, now, otpStore>>
    \/ Tick /\ UNCHANGED <<started, tenantVars>>

SpecPrint == Init /\ [][NextPrint]_vars

\* a reading handler of PrinterController behind AuthController.verifyToken,
\* the way the user endpoints are mounted
VerifiedCall(token) ==
    IF verifyTokenStatus(token) # 0
    THEN Rejected("verifyToken", verifyTokenStatus(token),
                  HttpReq(token, NoUser, 0, Undefined, Undefined, Undefined))
    ELSE ReadCall(token, verifyToken(token), AdminIdArgs)

\* the token resolver and the tenant filter: principals are registered,
\* clerks created and logged in, jobs submitted, and the resolved principal
\* is handed to the reading handlers of the print-job store
NextTenant ==
    \/ /\ started < MaxTenantRequests
       /\ started' = started + 1
       /\ UNCHANGED <<now, otpStore>>
       /\ \/ \E e \in Emails, r \in UserRole : register(e, "pw1", r)
          \/ \E e \in Emails, p \in Passwords : login(e, p)
          \/ \E t \in Bearer, e \in Emails, a \in AdminIdArgs :
                postUsers(t, e, "pw1", a)
          \/ SubmitCall
          \/ \E t \in Bearer : VerifiedCall(t)

SpecTenant == Init /\ [][NextTenant]_vars

(***************************************************************************)
(* Role changes (user.controller)                                           *)
(***************************************************************************)
\* UserController.updateUser: role and permissions of the body are assigned
\* and user.save() runs the pre('save') hook; findById throws on an id that
\* is no ObjectId and save() on a role outside the enum
updateUser(req, id, role, permissions) ==
    LET body == [Body(Undefined, Undefined, Undefined, id) EXCEPT !.role = role]
        user == {u \in users : u.id = id} IN
    IF ~isValidObjectId(id)
    THEN Answer("updateUser", 500, "Internal server error", req, body)
    ELSE IF user = {}
    THEN Answer("updateUser", 404, "User not found", req, body)
    ELSE IF role # Undefined /\ role \notin UserRole
    THEN Answer("updateUser", 500, "Internal server error", req, body)
    ELSE /\ users' = (users \ user) \cup
               {[u EXCEPT !.role = IF role # Undefined THEN role ELSE @,
                          !.permissions =
                             preSavePermissions(
                                role # Undefined /\ role # u.role,
                                IF role # Undefined THEN role ELSE u.role,
                                IF permissions # UndefinedPermissions
                                THEN permissions ELSE @)] : u \in user}
         /\ printResp' = AuthReply("updateUser", 200,
                "User updated successfully", req, body)
         /\ UNCHANGED <<assets, clients, clerks, tokens, jobs, nextJobId, preqs>>

\* UserController.bulkUpdateRoles: User.updateMany({ _id: { $in: userIds } },
\* { role }) writes the role in the store; no document is saved
bulkUpdateRoles(req, userIds, role) ==
    LET body == [Body(Undefined, Undefined, Undefined, Undefined)
                    EXCEPT !.role = role] IN
    IF userIds = {}
    THEN Answer("bulkUpdateRoles", 400, "User IDs array is required", req, body)
    ELSE IF role \notin UserRole
    THEN Answer("bulkUpdateRoles", 400, "Invalid role", req, body)
    ELSE /\ users' = {IF u.id \in userIds THEN [u EXCEPT !.role = role] ELSE u :
                         u \in users}
         /\ printResp' = AuthReply("bulkUpdateRoles", 200,
                "users updated successfully", req, body)
         /\ UNCHANGED <<assets, clients, clerks, tokens, jobs, nextJobId, preqs>>

(***************************************************************************)
(* Requests of the auth, user and client endpoints                          *)
(***************************************************************************)
\* a middleware in front of a handler: it answers with its status or calls
\* next()
Guarded(op, status, req, next) ==
    IF status # 0 THEN Rejected(op, status, req) ELSE next

\* a request before any middleware has resolved its token
Anonymous(token) == HttpReq(token, NoUser, 0, Undefined, Undefined, Undefined)

\* auth.route: profile, change-password, logout and refresh behind
\* AuthController.verifyToken
AuthRouteCall(token) ==
    Guarded("verifyToken", verifyTokenStatus(token), Anonymous(token),
        \/ getProfile(Verified(token))
        \/ logout(Verified(token))
        \/ refreshToken(Verified(token))
        \/ \E cur \in Passwords :
              changePassword(Verified(token), cur, "pw2"))

\* user.route: router.use(AuthController.verifyToken), then checkRole or
\* checkPermission per route
UserRouteCall(token) ==
    Guarded("verifyToken", verifyTokenStatus(token), Anonymous(token),
        \/ \E id \in {"u1", "u2"} :
              Guarded("checkRole", checkRole(verifyToken(token), AdminManager),
                      Verified(token), getUserById(Verified(token), id))
        \/ \E role \in {"admin", "bogus"} :
              Guarded("checkRole", checkRole(verifyToken(token), AdminManager),
                      Verified(token), getUsersByRole(Verified(token), role))
        \/ \E id \in {"u1", "u2"} :
              Guarded("checkPermission",
                      checkPermission(verifyToken(token), "manage_users"),
                      Verified(token), deleteUser(Verified(token), id)))

\* client.route: router.use(ClientController.verifyToken) in front of the
\* profile routes
ClientRouteCall(token) ==
    Guarded("clientVerifyToken", clientVerifyTokenStatus(token), Anonymous(token),
        \/ clientGetProfile(Verified(token))
        \/ \E cur \in Passwords :
              clientChangePassword(Verified(token), cur, "pw2"))

\* accounts of the three kinds are registered, logged in and changed, and
\* every token issued is presented to every router
NextAuth ==
    /\ started < MaxAuthRequests
    /\ started' = started + 1
    /\ UNCHANGED <<now, otpStore>>
    /\ \/ \E e \in Emails, r \in {"admin", Undefined} : register(e, "pw1", r)
       \/ \E e \in Emails, p \in Passwords : login(e, p)
       \/ \E t \in tokens \cup {NoToken}, e \in Emails, a \in {Undefined, "u2"} :
             postUsers(t, e, "pw1", a)
       \/ \E c \in {"c1", "c2"}, p \in {"pw2", "short"} : changeClerkPassword(c, p)
       \/ \E e \in Emails : clientRegister(e, "pw1")
       \/ \E e \in Emails, p \in Passwords : clientLogin(e, p)
       \/ \E t \in tokens \cup {NoToken} :
             AuthRouteCall(t) \/ UserRouteCall(t) \/ ClientRouteCall(t)

SpecAuth == Init /\ [][NextAuth]_vars

(***************************************************************************)
(* Requests that create and delete print jobs and their assets              *)
(***************************************************************************)
\* a print handler behind AuthController.verifyToken: req.user is the
\* resolved principal
VerifiedJobReq(token, id) ==
    HttpReq(token, verifyToken(token), id, Undefined, Undefined, Undefined)

\* submissions with every outcome of the upload and of the local unlink
SubmitAnyUpload ==
    \E c \in ClientIds, a \in {"u1", "u2"}, up \in UploadResults,
       unlinkOk \in BOOLEAN :
        submitPDF(c, PlainBody(a), up, unlinkOk)

\* admins register, jobs are submitted for them whatever the remote store
\* does, and the admins read and delete jobs by id under their tenant filter
NextAssets ==
    \/ /\ started < MaxAssetRequests
       /\ started' = started + 1
       /\ UNCHANGED <<now, otpStore>>
       /\ \/ \E e \in Emails : register(e, "pw1", "admin")
          \/ SubmitAnyUpload
          \/ \E t \in tokens, id \in 1..MaxJobs : getPrintJob(VerifiedJobReq(t, id))
          \/ \E s \in PSlots, t \in tokens, id \in 1..MaxJobs :
                deletePrintJob(s, VerifiedJobReq(t, id))
    \/ \E s \in PSlots : DeleteAssets(s) /\ UNCHANGED <<started, now, otpStore>>
    \/ \E s \in PSlots : DeleteApply(s) /\ UNCHANGED <<started, now, otpStore>>

SpecAssets == Init /\ [][NextAssets]_vars

(***************************************************************************)
(* Submissions with the form fields a client can send                       *)
(***************************************************************************)
\* forms that pass the presence checks, with numerals that are integers, a
\* numeral that is not, and text where a number is expected
SubmittedForms ==
    {FormBody("u1", q, c, dd[1], dd[2]) :
        q \in {"3", "2.7", "x"}, c \in {Undefined, "0", "2"},
        dd \in {<<Undefined, Undefined>>, <<"true", "note">>}}

SubmitForm ==
    \E c \in ClientIds, body \in SubmittedForms : submitPDF(c, body, "threw", TRUE)

\* the submit and read routes as mounted
NextSubmit ==
    /\ started < MaxSubmitRequests
    /\ started' = started + 1
    /\ UNCHANGED <<now, otpStore>>
    /\ \/ SubmitForm
       \/ \E id \in 1..MaxJobs :
             getPrintJob(HttpReq(NoToken, printerRouteUser(NoToken), id,
                                 Undefined, Undefined, Undefined))

SpecSubmit == Init /\ [][NextSubmit]_vars

(***************************************************************************)
(* The statistics queries among submissions, status updates and deletes     *)
(***************************************************************************)
StatsStart(s) ==
    \/ \E e \in {"a@x.io"} : register(e, "pw1", "admin")
    \/ \E c \in ClientIds, a \in {"u1", "u2"} :
          submitPDF(c, PlainBody(a), "threw", TRUE)
    \/ \E t \in tokens \cup {NoToken} :
          getPrintStatsAggregate(s, VerifiedJobReq(t, 0))
    \/ \E t \in tokens \cup {NoToken}, id \in 1..MaxJobs :
          updatePrintJobStatus(s, HttpReq(t, verifyToken(t), id, "completed",
                                          Undefined, Undefined))
    \/ \E t \in tokens \cup {NoToken}, id \in 1..MaxJobs :
          deletePrintJob(s, VerifiedJobReq(t, id))

StatsStep(s) ==
    \/ getPrintStatsTotal(s)
    \/ getPrintStatsCompleted(s)
    \/ PrintStep(s)

NextStats ==
    \/ \E s \in PSlots : /\ StatsStart(s)
                          /\ started < MaxStatsRequests
                          /\ started' = started + 1
                          /\ UNCHANGED <<now, otpStore>>
    \/ \E s \in PSlots : StatsStep(s) /\ UNCHANGED <<started, now, otpStore>>

SpecStats == Init /\ [][NextStats]_vars

(***************************************************************************)
(* The dashboard endpoints next to GET /print/jobs                          *)
(***************************************************************************)
\* a dashboard or print handler on the principal that verifyToken resolves;
\* without a token the request is the one the routes as mounted hand over
DashCall(token) ==
    LET req == HttpReq(token, verifyToken(token), 0, Undefined, Undefined, Undefined) IN
    \/ \E d \in Dates \cup {NoDate} : getDashboardStats(req, d)
    \/ getWeeklyActivity(req)
    \/ \E d \in Dates \cup {NoDate} : getJobsByDate(req, d)
    \/ getPrintJobs(req)

NextDash ==
    \/ /\ started < MaxDashRequests
       /\ started' = started + 1
       /\ UNCHANGED <<now, otpStore>>
       /\ \/ \E r \in UserRole : register("a@x.io", "pw1", r)
          \/ login("b@x.io", "pw1")
          \/ \E t \in tokens : postUsers(t, "b@x.io", "pw1", Undefined)
          \/ clientRegister("a@x.io", "pw1")
          \/ \E c \in ClientIds, a \in {"u1", "u2"} :
                submitPDF(c, PlainBody(a), "threw", TRUE)
          \/ \E t \in tokens \cup {NoToken} : DashCall(t)
    \/ Tick /\ UNCHANGED <<started, tenantVars>>

SpecDash == Init /\ [][NextDash]_vars

(***************************************************************************)
(* Accounts that change after their tokens were issued                      *)
(***************************************************************************)
\* permissions a request body can carry
BodyPermissions == {UndefinedPermissions, {"manage_jobs", "manage_users"}}

\* user.route: router.use(verifyToken) and checkPermission(MANAGE_USERS) in
\* front of PUT /:id, PUT /bulk-update-roles and DELETE /:id, checkRole in
\* front of GET /role/:role.  PUT /:id is declared first: its handler is the
\* one Express runs for the path /bulk-update-roles
ManageUsersCall(token) ==
    Guarded("verifyToken", verifyTokenStatus(token), Anonymous(token),
        Guarded("checkPermission",
                checkPermission(verifyToken(token), "manage_users"),
                Verified(token),
                \/ \E id \in {"u1", "u2", "bulk-update-roles"}, role \in UserRole,
                      ps \in BodyPermissions :
                      updateUser(Verified(token), id, role, ps)
                \/ \E id \in {"u1", "u2"} : deleteUser(Verified(token), id)))

\* the handler of PUT /bulk-update-roles behind the middleware its route
\* declares
BulkUpdateRolesCall(token) ==
    Guarded("verifyToken", verifyTokenStatus(token), Anonymous(token),
        Guarded("checkPermission",
                checkPermission(verifyToken(token), "manage_users"),
                Verified(token),
                \E ids \in {{}, {"u1"}, {"u1", "u2"}}, role \in UserRole :
                   bulkUpdateRoles(Verified(token), ids, role)))

\* a token presented to a route guarded by a role and to a handler that
\* builds the tenant filter
PresentToken(token) ==
    \/ Guarded("verifyToken", verifyTokenStatus(token), Anonymous(token),
               Guarded("checkRole", checkRole(verifyToken(token), AdminManager),
                       Verified(token), getUsersByRole(Verified(token), "admin")))
    \/ Guarded("verifyToken", verifyTokenStatus(token), Anonymous(token),
               getPrintJobs(Verified(token)))

NextRoles ==
    /\ started < MaxRoleRequests
    /\ started' = started + 1
    /\ UNCHANGED <<now, otpStore>>
    /\ \/ \E e \in Emails, r \in UserRole : register(e, "pw1", r)
       \/ \E e \in Emails : login(e, "pw1")
       \/ \E t \in tokens \cup {NoToken} : ManageUsersCall(t)
       \/ \E t \in tokens \cup {NoToken} : BulkUpdateRolesCall(t)
       \/ \E t \in tokens \cup {NoToken} : PresentToken(t)

SpecRoles == Init /\ [][NextRoles]_vars

(***************************************************************************)
(* Properties of the tenant filter and the print-job store                  *)
(***************************************************************************)

\* the tenant a signed token belongs to: the owning admin of a clerk, the
\* admin itself for an admin
tenantOf(token) ==
    IF token.sig # "valid" THEN Undefined
    ELSE IF token.clerkId # Undefined THEN token.adminId
    ELSE IF token.role = "admin" THEN token.userId
    ELSE Undefined

TenantScopedOps ==
    {"getPrintJobs", "getPrintJob", "updatePrintJobStatus", "deletePrintJob",
     "getPrintStats"}

\* C1: a request to the job list, job get, status update, job delete or stats
\* endpoint that carries the token of admin A, or of a clerk of A, returns,
\* counts, updates or deletes only jobs whose adminId is A.
C1_TokenReachesOnlyOwnTenant ==
    (printResp.op \in TenantScopedOps /\ tenantOf(printResp.token) # Undefined)
        => \A j \in printResp.data : j.adminId = tenantOf(printResp.token)

StatusEdges ==
    {<<"pending", "processing">>, <<"processing", "completed">>,
     <<"pending", "failed">>, <<"processing", "failed">>}

\* C4: the status of a job changes only along pending -> processing,
\* processing -> completed, pending -> failed and processing -> failed, and a
\* status update is answered 200 only for such a change.
C4_StatusFollowsStateMachine ==
    [][/\ \A j \in jobs, k \in jobs' :
            (j.id = k.id /\ j.status # k.status)
                => <<j.status, k.status>> \in StatusEdges
       /\ (printResp' # printResp /\ printResp'.op = "updatePrintJobStatus"
                                  /\ printResp'.status = 200)
            => \A k \in printResp'.data : \E j \in jobs :
                  j.id = k.id /\ <<j.status, k.status>> \in StatusEdges]_vars

VerifyReplies(s) ==
    /\ reqs[s].pc = "v_check"
    /\ reqs'[s].pc = "idle"
    /\ reqs[s].doc # NoDoc

\* C6: once an outstanding OTP has taken 5 wrong guesses, the next verify for
\* its email is refused with "maximum attempts exceeded" whatever code it
\* carries, the document is removed by that call, and a document with 5
\* attempts is never marked verified.
C6_ExhaustedOtpRefused ==
    [][/\ \A s \in Slots :
            (VerifyReplies(s) /\ reqs[s].doc.attempts >= MaxAttempts)
                => /\ otpResp'.resp = "AttemptsExhausted"
                   /\ otpResp'.status = 400
                   /\ reqs[s].doc.id \notin DOMAIN otps'
       /\ \A id \in DOMAIN otps' :
            otps'[id].attempts >= MaxAttempts => ~otps'[id].verified]_vars

\* C6 witness: the sixth verify carried the right code and was refused
C6_Witness ==
    /\ otpResp.resp = "AttemptsExhausted"
    /\ otpResp.matched
    /\ \A id \in DOMAIN otps : ~otps[id].verified

\* C7: at most one unverified, unexpired OTP document per email.
C7_OneActiveOtpPerEmail ==
    \A e \in Emails : Cardinality(findValidOTP(e)) <= 1

\* a sendOTP call that took the reuse branch replies in this step
ReusingSendReplies(s) ==
    /\ reqs[s].kind = "send"
    /\ reqs'[s].pc = "idle"
    /\ \/ reqs[s].pc = "s_branch" /\ reuseExisting(reqs[s].doc)
       \/ reqs[s].pc = "s_rollback" /\ ~reqs[s].created

\* C8: a second send within the expiry window, with fewer than 5 failed
\* attempts and no verify in between, leaves the outstanding document in
\* force with its code, expiry and attempt count.
C8_SecondSendKeepsCode ==
    [][\A s \in Slots :
          ReusingSendReplies(s)
              => /\ reqs[s].doc.id \in DOMAIN otps'
                 /\ otps'[reqs[s].doc.id] = Stored(reqs[s].doc)]_vars

\* C9: a send or resend whose mail dispatch failed replies 500 "failed to
\* send", the document it held is gone when it replies, and a document that
\* has been removed never comes back.
C9_FailedDispatchRollsBack ==
    [][/\ \A s \in Slots :
            (reqs[s].pc = "s_rollback" /\ reqs'[s].pc = "idle")
                => /\ otpResp'.resp = "DeliveryError"
                   /\ otpResp'.status = 500
                   /\ reqs[s].doc.id \notin DOMAIN otps'
       /\ \A id \in 1..(nextOtpId - 1) :
            id \notin DOMAIN otps => id \notin DOMAIN otps']_vars

\* C9 witness: the only request so far was a send that stored document 1,
\* failed to dispatch its mail and rolled the document back
C9_Witness ==
    /\ otpResp.resp = "DeliveryError"
    /\ started = 1
    /\ nextOtpId = 2
    /\ otps = << >>

\* a verifyOTP call replies "Invalid OTP" (wrong code) in this step
WrongGuessReplies(s) ==
    /\ VerifyReplies(s)
    /\ otpResp'.resp = "InvalidOtp"

C11_ExpiredOtpDeletedByVerify ==
    [][\A s \in Slots :
          (reqs[s].pc = "v_check" /\ reqs'[s].pc = "idle")
              => \A id \in DOMAIN otps :
                    (/\ otps[id].email = reqs[s].email
                     /\ ~otps[id].verified
                     /\ isExpired(otps[id]))
                        => /\ otpResp'.status = 400
                           /\ id \notin DOMAIN otps']_vars

(***************************************************************************)
(* Properties of the token resolvers, the accounts and their passwords      *)
(***************************************************************************)

\* the answers of the handlers and middlewares that run once
\* AuthController.verifyToken has called next()
BehindVerifyToken ==
    {"getProfile", "logout", "refreshToken", "changePassword", "checkRole",
     "checkPermission", "getUserById", "getUsersByRole", "deleteUser",
     "createUser"}

\* the answers of the handlers behind ClientController.verifyToken
BehindClientVerifyToken == {"clientGetProfile", "clientChangePassword"}

\* C12: the admin/clerk resolver hands a request on only for an Admin-shaped
\* or a Clerk-shaped token, never for a Client token, and the client resolver
\* hands a request on only for a Client token.
C12_ResolversAdmitOnlyTheirShapes ==
    /\ printResp.op \in BehindVerifyToken
          => /\ printResp.token.sig = "valid"
             /\ printResp.token.type # "client"
             /\ \/ printResp.token.userId # Undefined
                      /\ printResp.token.clerkId = Undefined
                \/ printResp.token.clerkId # Undefined
                      /\ printResp.token.adminId # Undefined
    /\ printResp.op \in BehindClientVerifyToken
          => /\ printResp.token.sig = "valid"
             /\ printResp.token.type = "client"

\* the answers of the handlers mounted behind checkRole([ADMIN, MANAGER])
RoleGuardedOps == {"getUserById", "getUsersByRole"}

C14_RegisteredUsersGetAdminTokens ==
    (\/ printResp.op = "register" /\ printResp.status = 201
     \/ printResp.op = "login" /\ printResp.status = 200)
        => \A u \in users :
              u.email = printResp.body.email
                 => /\ generateAuthToken(u) \in tokens
                    /\ generateAuthToken(u).role = "admin"
                    /\ generateAuthToken(u).permissions = ROLE_PERMISSIONS("admin")
                    /\ buildAdminIdFilter(verifyToken(generateAuthToken(u)))
                          = {<<"adminId", u.id>>}

\* the handlers that set a stored password on behalf of its owner
PasswordChangeOps ==
    {"changePassword", "changeClerkPassword", "clientChangePassword"}

\* C15: a password-change request replaces the stored password of an Admin,
\* a Clerk or a Client, or clears a Clerk's isTemporaryPassword, only when
\* the current password it supplies is the stored one.
C15_PasswordChangeNeedsCurrentPassword ==
    [][(started' # started /\ printResp'.op \in PasswordChangeOps)
          => /\ \A u \in users : u \notin users'
                    => printResp'.body.password = u.password
             /\ \A c \in clerks : c \notin clerks'
                    => printResp'.body.password = c.password
             /\ \A k \in clients : k \notin clients'
                    => printResp'.body.password = k.password]_vars

\* the login handlers of the three principal kinds
LoginOps == {"login", "clientLogin"}

\* C16: a login succeeds only for an existing, active account whose stored
\* password is the one supplied; every failed login of a handler is answered
\* with status 401 and one and the same message, and changes no lastLogin.
C16_LoginFailuresAreIndistinguishable ==
    [][(started' # started /\ printResp'.op \in LoginOps)
          => IF printResp'.status = 200
             THEN LET b == printResp'.body IN
                  \/ \E u \in users : u.email = b.email /\ u.isActive
                                         /\ u.password = b.password
                  \/ \E c \in clerks : c.email = b.email /\ c.isActive
                                          /\ c.password = b.password
                  \/ \E k \in clients : k.email = b.email /\ k.isActive
                                           /\ k.password = b.password
             ELSE /\ printResp'.status = 401
                  /\ printResp'.message = "Invalid email or password"
                  /\ UNCHANGED <<users, clerks, clients>>]_vars

\* C17: a registration whose email is already held by a principal of the
\* same kind is answered 409 and creates nothing; for a clerk this holds
\* whichever admin owns the clerk that holds the email.
C17_DuplicateEmailIsConflict ==
    [][(/\ started' # started
        /\ LET e == printResp'.body.email IN
           \/ printResp'.op = "register" /\ \E u \in users : u.email = e
           \/ printResp'.op = "createUser" /\ \E c \in clerks : c.email = e
           \/ printResp'.op = "clientRegister" /\ \E k \in clients : k.email = e)
          => /\ printResp'.status = 409
             /\ UNCHANGED <<users, clerks, clients>>]_vars

\* a validly signed token of an admin who holds manage_users
IsAdminToken(t) ==
    /\ t.sig = "valid"
    /\ t.userId # Undefined
    /\ t.role = "admin"
    /\ "manage_users" \in t.permissions

\* a step of POST /users: the request answered is the one postUsers
\* answers this way
PostUsersStep ==
    /\ started' # started
    /\ printResp'.op \in {"verifyToken", "checkPermission", "createUser"}
    /\ postUsers(printResp'.token, printResp'.body.email, "pw1",
                 printResp'.adminIdArg)

C19_TemporaryUntilPasswordChange ==
    [][\A c \in clerks' :
          LET old == {o \in clerks : o.id = c.id}
              changed == /\ started' # started
                         /\ printResp'.op = "changeClerkPassword"
                         /\ printResp'.status = 200
                         /\ printResp'.body.id = c.id IN
          /\ old = {} => c.isTemporaryPassword
          /\ changed => ~c.isTemporaryPassword
          /\ \A o \in old :
                o.isTemporaryPassword # c.isTemporaryPassword
                   => o.isTemporaryPassword /\ changed]_vars

\* a clerk logged in with the temporary password, which left the flag set,
\* and then had the password changed
C19_Witness ==
    /\ printResp.op = "changeClerkPassword"
    /\ printResp.status = 200
    /\ \E c \in clerks : /\ c.id = printResp.body.id
                         /\ c.lastLogin # Never
                         /\ ~c.isTemporaryPassword

(***************************************************************************)
(* Properties of the remote asset of a print job                            *)
(***************************************************************************)

\* C20: when an update to completed reaches a job that carries a
\* cloudinaryPublicId, the remote delete is attempted, and whether it
\* succeeds or throws the job is stored as completed and the reply is 200.
C20_RemoteDeleteIsBestEffort ==
    [][\A s \in PSlots :
          (/\ preqs[s].pc = "u_update"
           /\ preqs'[s].pc = "idle"
           /\ preqs[s].status = "completed"
           /\ \E j \in preqs[s].existing : j.cloudinaryPublicId # Undefined
           /\ \E j \in jobs : j.id = preqs[s].id)
             => /\ printResp'.cloudinary \in {"destroyed", "threw"}
                /\ printResp'.status = 200
                /\ \E j \in jobs' : j.id = preqs[s].id /\ j.status = "completed"]_vars

\* the remote delete threw and the job is stored as completed, answered 200
C20_Witness ==
    /\ printResp.op = "updatePrintJobStatus"
    /\ printResp.cloudinary = "threw"
    /\ printResp.status = 200
    /\ \E j \in jobs : /\ j.id = printResp.id
                       /\ j.status = "completed"
                       /\ j.cloudinaryPublicId # Undefined

\* C21: a submission that passed validation and whose upload threw or gave
\* no usable reference is answered 201; its job is stored as pending, with
\* the local upload as filePath and without cloudinaryPublicId, and the local
\* file is kept.
C21_FailedUploadFallsBackToLocalFile ==
    [][(/\ printResp' # printResp
        /\ printResp'.op = "submitPDF"
        /\ printResp'.cloudinary \in {"threw", "invalid"})
          => /\ printResp'.status = 201
             /\ \E j \in jobs' \ jobs :
                   /\ j.id = nextJobId
                   /\ j \in printResp'.data
                   /\ j.status = "pending"
                   /\ j.filePath = LocalPaths[j.id]
                   /\ j.filePath \in disk'
                   /\ j.cloudinaryPublicId = Undefined
                   /\ j.cloudinaryUrl = Undefined
             /\ cloud' = cloud]_vars

\* the upload returned a result without a reference and the job is stored
\* with its local file
C21_Witness ==
    /\ printResp.op = "submitPDF"
    /\ printResp.cloudinary = "invalid"
    /\ printResp.status = 201
    /\ \E j \in jobs : /\ j \in printResp.data
                       /\ j.filePath \in disk
                       /\ j.cloudinaryPublicId = Undefined

submittedTenths(x) ==
    CASE x = "0" -> 0
      [] x = "1" -> 10
      [] x = "2" -> 20
      [] x = "3" -> 30
      [] x = "2.7" -> 27

\* C23: a submission answered 201 stores a pending job whose fileName,
\* artwork, width, height, quantity, location, description, copies, duplex,
\* color, clientId and adminId are the submitted values, and getPrintJob
\* returns the stored job unchanged.
C23_SubmittedFieldsRoundTrip ==
    [][/\ \A c \in ClientIds, body \in SubmittedForms :
            (submitPDF(c, body, "threw", TRUE) /\ printResp'.status = 201)
               => \E j \in jobs' \ jobs :
                     /\ j.status = "pending"
                     /\ j.fileName = "file.pdf"
                     /\ j.artwork = body.artwork
                     /\ j.width = body.width
                     /\ j.height = body.height
                     /\ j.location = body.location
                     /\ 10 * j.quantity = submittedTenths(body.quantity)
                     /\ body.copies # Undefined
                           => 10 * j.copies = submittedTenths(body.copies)
                     /\ body.description # Undefined
                           => j.description = body.description
                     /\ body.duplex # Undefined
                           => j.duplex = (body.duplex = "true")
                     /\ j.color = (body.color = "true")
                     /\ j.clientId = c
                     /\ j.adminId = body.adminId
       /\ (/\ printResp' # printResp
           /\ printResp'.op = "getPrintJob"
           /\ printResp'.status = 200)
             => /\ printResp'.data \subseteq jobs
                /\ \A j \in printResp'.data : j.id = printResp'.id]_vars

groupCount(stats, st) ==
    IF \E g \in stats : g.id = st
    THEN (CHOOSE g \in stats : g.id = st).count
    ELSE 0

\* C28: in every getPrintStats reply completedJobs <= totalJobs, the counts
\* of the status groups add up to totalJobs and successRate is between 0 and
\* 100, whatever other requests run between the handler's three queries.
C28_StatsAreConsistent ==
    [][(printResp' # printResp /\ printResp'.op = "getPrintStats")
          => /\ printResp'.completedJobs <= printResp'.totalJobs
             /\ groupCount(printResp'.stats, "pending")
                   + groupCount(printResp'.stats, "processing")
                   + groupCount(printResp'.stats, "completed")
                   + groupCount(printResp'.stats, "failed")
                   = printResp'.totalJobs
             /\ printResp'.successRate.num >= 0
             /\ printResp'.successRate.num <= 100 * printResp'.successRate.den]_vars

DashboardOps == {"getDashboardStats", "getWeeklyActivity", "getJobsByDate"}

TokenGuardedOps ==
    {"verifyToken", "checkPermission", "checkRole", "updateUser", "deleteUser",
     "bulkUpdateRoles", "getUsersByRole", "getPrintJobs"}

C27_EveryWrongGuessIsCounted ==
    [][/\ \A s \in Slots :
            (/\ reqs[s].pc = "v_check"
             /\ reqs'[s].pc = "idle"
             /\ otpResp'.resp = "InvalidOtp")
               => /\ reqs[s].doc.id \in DOMAIN otps'
                  /\ otps'[reqs[s].doc.id].attempts
                        = otps[reqs[s].doc.id].attempts + 1
       /\ \A id \in DOMAIN otps \cap DOMAIN otps' :
             otps'[id].attempts >= otps[id].attempts]_vars

\* C29: a sendOTP call that reused the valid document of its email and whose
\* mail dispatch failed replies 500 and removes the reused document; when it
\* replies, no unverified, unexpired document is stored for the email, so the
\* code delivered before has nothing left to be verified against.
C29_FailedResendOfReusedOtpDeletesIt ==
    [][\A s \in Slots :
          (/\ reqs[s].kind = "send"
           /\ ~reqs[s].created
           /\ reqs[s].pc = "s_rollback"
           /\ reqs'[s].pc = "idle")
             => /\ otpResp'.status = 500
                /\ otpResp'.resp = "DeliveryError"
                /\ reqs[s].doc.id \notin DOMAIN otps'
                /\ \A id \in DOMAIN otps' :
                      ~(/\ otps'[id].email = reqs[s].email
                        /\ ~otps'[id].verified
                        /\ otps'[id].expiresAt > now')]_vars

\* a send has taken over the stored document of an earlier send, its mail
\* dispatch has failed and the handler is in its catch block
C29_Witness ==
    \E s \in Slots :
       /\ reqs[s].kind = "send"
       /\ reqs[s].pc = "s_rollback"
       /\ ~reqs[s].created
       /\ reqs[s].doc.id \in DOMAIN otps
       /\ otps[reqs[s].doc.id].otp = reqs[s].doc.otp
       /\ otpResp.resp = "Sent"

====
